---- MODULE Spec2Model ----
(***************************************************************************)
(* Fan-out / fan-in pipeline of precode.go: one Generator goroutine, NumOut *)
(* Worker goroutines competing on chIn, NumOut collector goroutines, one    *)
(* closer goroutine (wg.Wait; close(chOut)) and main, which drains chOut    *)
(* and runs the consistency checks.                                         *)
(*                                                                          *)
(* Unbuffered channels (chIn, outs[i]) are modelled by a rendezvous: the    *)
(* blocked sender and the blocked receiver move in one step.  chOut is a    *)
(* buffered channel of capacity NumOut.                                     *)
(***************************************************************************)
EXTENDS Integers, Sequences, FiniteSets, TLC

\* Number of workers, outs channels and collectors (25 in the source, scaled down).
NumOut == 2
\* Cap on the Generator's counter g (the source generates until the timeout).
MaxGen == 3

Idx == 0 .. (NumOut - 1)

\* Channel identities.
ChIn == <<"chIn", 0>>
ChOut == <<"chOut", 0>>
Outs(i) == <<"outs", i>>
Chans == {ChIn, ChOut} \cup {Outs(i) : i \in Idx}

\* Goroutine identities.
GeneratorTask == <<"Generator", 0>>
WorkerTask(i) == <<"Worker", i>>
CollectorTask(i) == <<"collector", i>>
CloserTask == <<"closer", 0>>

VARIABLES
    cancelled,   \* ctx.Done() is closed (timeout fired or cancel() called)
    cancelAt,    \* history: number of sends on chIn completed when ctx was cancelled, -1 before
    closedBy,    \* per channel: the goroutines that closed it, in order (closed iff non-empty)
    panicked,    \* a runtime panic happened (close of closed channel, send on closed channel)
    genPc,       \* Generator: "idle", "select", "send", "hookSum", "hookCount", "done"
    g,           \* Generator's local g
    inputSum,    \* main's inputSum
    inputCount,  \* main's inputCount
    wPc,         \* Worker i: "idle", "recv", "send", "sleep", "done"
    wV,          \* Worker i's local v
    cPc,         \* collector i: "idle", "recv", "incr", "send", "done"
    cVal,        \* collector i's local val
    amounts,     \* main's amounts slice
    chOut,       \* buffer of chOut
    wg,          \* WaitGroup counter
    closerPc,    \* closer goroutine: "idle", "wait", "close", "done"
    mainPc,      \* main: "goGenerator", "goWorker", "goCollector", "goCloser", "range",
                 \*       "report", "checkSum", "checkCount", "checkPartition", "done",
                 \*       "fatalSum", "fatalCount", "fatalPartition"
    mainI,       \* main's loop index in the two spawning loops
    count,       \* main's count
    sum,         \* main's sum
    printed,     \* what main printed: <<>> or <<inputCount, count, inputSum, sum, amounts>>
    sent,        \* history: values sent on chIn, in order
    hooked,      \* history: arguments of the calls fn(g), in order
    got,         \* history: values Worker i received from chIn, in order
    fwd,         \* history: values Worker i sent on outs[i], in order
    pushed,      \* history: values collector i sent on chOut, in order
    recvd        \* history: values main received from chOut, in order

chanVars == <<cancelled, cancelAt, closedBy, panicked>>
genVars == <<genPc, g, inputSum, inputCount>>
workerVars == <<wPc, wV>>
collectorVars == <<cPc, cVal, amounts, wg>>
mainVars == <<mainPc, mainI, count, sum, printed>>
histVars == <<sent, hooked, got, fwd, pushed, recvd>>
vars == <<chanVars, genVars, workerVars, collectorVars, chOut, closerPc, mainVars, histVars>>

Closed(c) == closedBy[c] # <<>>

\* The process is running: no panic, and main has neither returned nor called log.Fatalf.
Alive == ~panicked /\ mainPc \notin {"done", "fatalSum", "fatalCount", "fatalPartition"}

\* close(c) by goroutine who; closing a closed channel panics.
Close(c, who) ==
    /\ closedBy' = [closedBy EXCEPT ![c] = Append(@, who)]
    /\ panicked' = (panicked \/ Closed(c))

RECURSIVE SumTo(_, _)
SumTo(f, n) == IF n < 0 THEN 0 ELSE f[n] + SumTo(f, n - 1)
\* for _, v := range amounts { ... v ... } over the whole slice
SumAmounts == SumTo(amounts, NumOut - 1)

Init ==
    /\ cancelled = FALSE
    /\ cancelAt = -1
    /\ closedBy = [c \in Chans |-> <<>>]
    /\ panicked = FALSE
    /\ genPc = "idle"
    /\ g = 0
    /\ inputSum = 0
    /\ inputCount = 0
    /\ wPc = [i \in Idx |-> "idle"]
    /\ wV = [i \in Idx |-> 0]
    /\ cPc = [i \in Idx |-> "idle"]
    /\ cVal = [i \in Idx |-> 0]
    /\ amounts = [i \in Idx |-> 0]
    /\ chOut = <<>>
    /\ wg = 0
    /\ closerPc = "idle"
    /\ mainPc = "goGenerator"
    /\ mainI = 0
    /\ count = 0
    /\ sum = 0
    /\ printed = <<>>
    /\ sent = <<>>
    /\ hooked = <<>>
    /\ got = [i \in Idx |-> <<>>]
    /\ fwd = [i \in Idx |-> <<>>]
    /\ pushed = [i \in Idx |-> <<>>]
    /\ recvd = <<>>

----------------------------------------------------------------------------
\* The context: context.WithTimeout(..., 1*time.Second) and cancel().

CancelCtx ==
    /\ cancelled' = TRUE
    /\ cancelAt' = IF cancelled THEN cancelAt ELSE Len(sent)

\* The timer of the context fires.
Timeout ==
    /\ Alive
    /\ ~cancelled
    /\ CancelCtx
    /\ UNCHANGED <<closedBy, panicked, genVars, workerVars, collectorVars, chOut,
                   closerPc, mainVars, histVars>>

----------------------------------------------------------------------------
\* Generator

\* Mutant of GenSelect: the default branch may be taken although ctx is cancelled.
GenSelect_IgnoresDone ==
    /\ Alive
    /\ genPc = "select"
    /\ \/ /\ cancelled
          /\ Close(ChIn, GeneratorTask)
          /\ genPc' = "done"
          /\ g' = g
       \/ /\ g < MaxGen
          /\ g' = g + 1
          /\ genPc' = "send"
          /\ UNCHANGED <<closedBy, panicked>>
    /\ UNCHANGED <<cancelled, cancelAt, inputSum, inputCount, workerVars, collectorVars,
                   chOut, closerPc, mainVars, histVars>>

\* select { case <-ctx.Done(): return (deferred close(ch)); default: g++ }
GenSelect ==
    /\ Alive
    /\ genPc = "select"
    /\ \/ /\ cancelled
          /\ Close(ChIn, GeneratorTask)
          /\ genPc' = "done"
          /\ g' = g
       \/ /\ ~cancelled
          /\ g < MaxGen
          /\ g' = g + 1
          /\ genPc' = "send"
          /\ UNCHANGED <<closedBy, panicked>>
    /\ UNCHANGED <<cancelled, cancelAt, inputSum, inputCount, workerVars, collectorVars,
                   chOut, closerPc, mainVars, histVars>>

\* Mutant of SendChIn: the value before the increment is sent (ch <- g; g++).
SendChIn_OffByOne(i) ==
    /\ Alive
    /\ genPc = "send"
    /\ wPc[i] = "recv"
    /\ genPc' = "hookSum"
    /\ wV' = [wV EXCEPT ![i] = g - 1]
    /\ wPc' = [wPc EXCEPT ![i] = "send"]
    /\ sent' = Append(sent, g - 1)
    /\ got' = [got EXCEPT ![i] = Append(@, g - 1)]
    /\ UNCHANGED <<chanVars, g, inputSum, inputCount, collectorVars,
                   chOut, closerPc, mainVars, hooked, fwd, pushed, recvd>>

\* Mutant of SendChIn: the Generator goes on without calling fn(g).
SendChIn_NoHook(i) ==
    /\ Alive
    /\ genPc = "send"
    /\ wPc[i] = "recv"
    /\ genPc' = "select"
    /\ wV' = [wV EXCEPT ![i] = g]
    /\ wPc' = [wPc EXCEPT ![i] = "send"]
    /\ sent' = Append(sent, g)
    /\ got' = [got EXCEPT ![i] = Append(@, g)]
    /\ UNCHANGED <<chanVars, g, inputSum, inputCount, collectorVars,
                   chOut, closerPc, mainVars, hooked, fwd, pushed, recvd>>

\* ch <- g in the Generator meets v, ok := <-in in Worker i (ok = true).
SendChIn(i) ==
    /\ Alive
    /\ genPc = "send"
    /\ wPc[i] = "recv"
    /\ IF Closed(ChIn)
         THEN /\ panicked' = TRUE
              /\ UNCHANGED <<genPc, wPc, wV, sent, got>>
         ELSE /\ genPc' = "hookSum"
              /\ wV' = [wV EXCEPT ![i] = g]
              /\ wPc' = [wPc EXCEPT ![i] = "send"]
              /\ sent' = Append(sent, g)
              /\ got' = [got EXCEPT ![i] = Append(@, g)]
              /\ UNCHANGED panicked
    /\ UNCHANGED <<cancelled, cancelAt, closedBy, g, inputSum, inputCount, collectorVars,
                   chOut, closerPc, mainVars, hooked, fwd, pushed, recvd>>

\* Mutant of HookSum: the hook adds the running inputCount to inputSum instead of i.
HookSum_AddsCount ==
    /\ Alive
    /\ genPc = "hookSum"
    /\ inputSum' = inputSum + inputCount
    /\ hooked' = Append(hooked, g)
    /\ genPc' = "hookCount"
    /\ UNCHANGED <<chanVars, g, inputCount, workerVars, collectorVars, chOut, closerPc,
                   mainVars, sent, got, fwd, pushed, recvd>>

\* Mutant of HookSum: the hook adds 1 to inputSum instead of i.
HookSum_AddsOne ==
    /\ Alive
    /\ genPc = "hookSum"
    /\ inputSum' = inputSum + 1
    /\ hooked' = Append(hooked, g)
    /\ genPc' = "hookCount"
    /\ UNCHANGED <<chanVars, g, inputCount, workerVars, collectorVars, chOut, closerPc,
                   mainVars, sent, got, fwd, pushed, recvd>>

\* fn(g) is entered with i = g: atomic.AddInt64(&inputSum, i)
HookSum ==
    /\ Alive
    /\ genPc = "hookSum"
    /\ inputSum' = inputSum + g
    /\ hooked' = Append(hooked, g)
    /\ genPc' = "hookCount"
    /\ UNCHANGED <<chanVars, g, inputCount, workerVars, collectorVars, chOut, closerPc,
                   mainVars, sent, got, fwd, pushed, recvd>>

\* Mutant of HookCount: a non-atomic increment whose update is lost after the first.
HookCount_Lost ==
    /\ Alive
    /\ genPc = "hookCount"
    /\ inputCount' = IF inputCount = 0 THEN 1 ELSE inputCount
    /\ genPc' = "select"
    /\ UNCHANGED <<chanVars, g, inputSum, workerVars, collectorVars, chOut, closerPc,
                   mainVars, histVars>>

\* fn(g): atomic.AddInt64(&inputCount, 1), then back to the top of the loop
HookCount ==
    /\ Alive
    /\ genPc = "hookCount"
    /\ inputCount' = inputCount + 1
    /\ genPc' = "select"
    /\ UNCHANGED <<chanVars, g, inputSum, workerVars, collectorVars, chOut, closerPc,
                   mainVars, histVars>>

----------------------------------------------------------------------------
\* Worker

\* Mutant of WorkerClosed: the Worker returns without close(out).
WorkerClosed_NoClose(i) ==
    /\ Alive
    /\ wPc[i] = "recv"
    /\ Closed(ChIn)
    /\ wPc' = [wPc EXCEPT ![i] = "done"]
    /\ UNCHANGED <<chanVars, genVars, wV, collectorVars, chOut, closerPc,
                   mainVars, histVars>>

\* Mutant of WorkerClosed: the Worker also stops when it sees ctx cancelled.
WorkerClosed_OnCancel(i) ==
    /\ Alive
    /\ wPc[i] = "recv"
    /\ (Closed(ChIn) \/ cancelled)
    /\ Close(Outs(i), WorkerTask(i))
    /\ wPc' = [wPc EXCEPT ![i] = "done"]
    /\ UNCHANGED <<cancelled, cancelAt, genVars, wV, collectorVars, chOut, closerPc,
                   mainVars, histVars>>

\* v, ok := <-in with ok = false: break, deferred close(out), return.
WorkerClosed(i) ==
    /\ Alive
    /\ wPc[i] = "recv"
    /\ Closed(ChIn)
    /\ Close(Outs(i), WorkerTask(i))
    /\ wPc' = [wPc EXCEPT ![i] = "done"]
    /\ UNCHANGED <<cancelled, cancelAt, genVars, wV, collectorVars, chOut, closerPc,
                   mainVars, histVars>>

\* Mutant of SendOuts: the Worker forwards v + 1 instead of v.
SendOuts_Transform(i) ==
    /\ Alive
    /\ wPc[i] = "send"
    /\ cPc[i] = "recv"
    /\ wPc' = [wPc EXCEPT ![i] = "sleep"]
    /\ cVal' = [cVal EXCEPT ![i] = wV[i] + 1]
    /\ cPc' = [cPc EXCEPT ![i] = "incr"]
    /\ fwd' = [fwd EXCEPT ![i] = Append(@, wV[i] + 1)]
    /\ UNCHANGED <<chanVars, genVars, wV, amounts, wg, chOut,
                   closerPc, mainVars, sent, hooked, got, pushed, recvd>>

\* out <- v in Worker i meets the receive of "for val := range in" in collector i.
SendOuts(i) ==
    /\ Alive
    /\ wPc[i] = "send"
    /\ cPc[i] = "recv"
    /\ IF Closed(Outs(i))
         THEN /\ panicked' = TRUE
              /\ UNCHANGED <<wPc, cPc, cVal, fwd>>
         ELSE /\ wPc' = [wPc EXCEPT ![i] = "sleep"]
              /\ cVal' = [cVal EXCEPT ![i] = wV[i]]
              /\ cPc' = [cPc EXCEPT ![i] = "incr"]
              /\ fwd' = [fwd EXCEPT ![i] = Append(@, wV[i])]
              /\ UNCHANGED panicked
    /\ UNCHANGED <<cancelled, cancelAt, closedBy, genVars, wV, amounts, wg, chOut,
                   closerPc, mainVars, sent, hooked, got, pushed, recvd>>

\* time.Sleep(1 * time.Millisecond)
WorkerSleep(i) ==
    /\ Alive
    /\ wPc[i] = "sleep"
    /\ wPc' = [wPc EXCEPT ![i] = "recv"]
    /\ UNCHANGED <<chanVars, genVars, wV, collectorVars, chOut, closerPc, mainVars,
                   histVars>>

----------------------------------------------------------------------------
\* Collector goroutines and the closer goroutine

\* Mutant of CollectorIncr: the goroutine indexes amounts with the loop variable it
\* captured (its last value) instead of its own parameter i.
CollectorIncr_WrongSlot(i) ==
    /\ Alive
    /\ cPc[i] = "incr"
    /\ amounts' = [amounts EXCEPT ![NumOut - 1] = @ + 1]
    /\ cPc' = [cPc EXCEPT ![i] = "send"]
    /\ UNCHANGED <<chanVars, genVars, workerVars, cVal, wg, chOut, closerPc, mainVars,
                   histVars>>

\* amounts[i]++
CollectorIncr(i) ==
    /\ Alive
    /\ cPc[i] = "incr"
    /\ amounts' = [amounts EXCEPT ![i] = @ + 1]
    /\ cPc' = [cPc EXCEPT ![i] = "send"]
    /\ UNCHANGED <<chanVars, genVars, workerVars, cVal, wg, chOut, closerPc, mainVars,
                   histVars>>

\* Mutant of SendChOut: the send never blocks on a full buffer.
SendChOut_Unbounded(i) ==
    /\ Alive
    /\ cPc[i] = "send"
    /\ chOut' = Append(chOut, cVal[i])
    /\ cPc' = [cPc EXCEPT ![i] = "recv"]
    /\ pushed' = [pushed EXCEPT ![i] = Append(@, cVal[i])]
    /\ UNCHANGED <<chanVars, genVars, workerVars, cVal, amounts, wg,
                   closerPc, mainVars, sent, hooked, got, fwd, recvd>>

\* Mutant of SendChOut: the buffer hands out the newest value first.
SendChOut_Lifo(i) ==
    /\ Alive
    /\ cPc[i] = "send"
    /\ Len(chOut) < NumOut
    /\ chOut' = <<cVal[i]>> \o chOut
    /\ cPc' = [cPc EXCEPT ![i] = "recv"]
    /\ pushed' = [pushed EXCEPT ![i] = Append(@, cVal[i])]
    /\ UNCHANGED <<chanVars, genVars, workerVars, cVal, amounts, wg,
                   closerPc, mainVars, sent, hooked, got, fwd, recvd>>

\* Mutant of SendChOut: a non-blocking send that drops val when the buffer is full.
SendChOut_DropWhenFull(i) ==
    /\ Alive
    /\ cPc[i] = "send"
    /\ IF Len(chOut) < NumOut
         THEN /\ chOut' = Append(chOut, cVal[i])
              /\ pushed' = [pushed EXCEPT ![i] = Append(@, cVal[i])]
         ELSE UNCHANGED <<chOut, pushed>>
    /\ cPc' = [cPc EXCEPT ![i] = "recv"]
    /\ UNCHANGED <<chanVars, genVars, workerVars, cVal, amounts, wg,
                   closerPc, mainVars, sent, hooked, got, fwd, recvd>>

\* chOut <- val: blocks while the buffer is full, panics on a closed channel.
SendChOut(i) ==
    /\ Alive
    /\ cPc[i] = "send"
    /\ IF Closed(ChOut)
         THEN /\ panicked' = TRUE
              /\ UNCHANGED <<chOut, cPc, pushed>>
         ELSE /\ Len(chOut) < NumOut
              /\ chOut' = Append(chOut, cVal[i])
              /\ cPc' = [cPc EXCEPT ![i] = "recv"]
              /\ pushed' = [pushed EXCEPT ![i] = Append(@, cVal[i])]
              /\ UNCHANGED panicked
    /\ UNCHANGED <<cancelled, cancelAt, closedBy, genVars, workerVars, cVal, amounts, wg,
                   closerPc, mainVars, sent, hooked, got, fwd, recvd>>

\* Mutant of CollectorClosed: every collector closes chOut when it finishes.
CollectorClosed_ClosesChOut(i) ==
    /\ Alive
    /\ cPc[i] = "recv"
    /\ Closed(Outs(i))
    /\ wg' = wg - 1
    /\ Close(ChOut, CollectorTask(i))
    /\ cPc' = [cPc EXCEPT ![i] = "done"]
    /\ UNCHANGED <<cancelled, cancelAt, genVars, workerVars, cVal, amounts, chOut, closerPc,
                   mainVars, histVars>>

\* "for val := range in" ends on the closed outs[i]; deferred wg.Done().
CollectorClosed(i) ==
    /\ Alive
    /\ cPc[i] = "recv"
    /\ Closed(Outs(i))
    /\ wg' = wg - 1
    /\ cPc' = [cPc EXCEPT ![i] = "done"]
    /\ UNCHANGED <<chanVars, genVars, workerVars, cVal, amounts, chOut, closerPc,
                   mainVars, histVars>>

\* Mutant of CloserWait: the closer does not wait for the WaitGroup.
CloserWait_NoWait ==
    /\ Alive
    /\ closerPc = "wait"
    /\ closerPc' = "close"
    /\ UNCHANGED <<chanVars, genVars, workerVars, collectorVars, chOut, mainVars,
                   histVars>>

\* wg.Wait() returns
CloserWait ==
    /\ Alive
    /\ closerPc = "wait"
    /\ wg = 0
    /\ closerPc' = "close"
    /\ UNCHANGED <<chanVars, genVars, workerVars, collectorVars, chOut, mainVars,
                   histVars>>

\* close(chOut)
CloserClose ==
    /\ Alive
    /\ closerPc = "close"
    /\ Close(ChOut, CloserTask)
    /\ closerPc' = "done"
    /\ UNCHANGED <<cancelled, cancelAt, genVars, workerVars, collectorVars, chOut,
                   mainVars, histVars>>

----------------------------------------------------------------------------
\* main

\* go Generator(ctx, chIn, func(i int64) {...})
MainGoGenerator ==
    /\ Alive
    /\ mainPc = "goGenerator"
    /\ genPc' = "select"
    /\ mainPc' = "goWorker"
    /\ UNCHANGED <<chanVars, g, inputSum, inputCount, workerVars, collectorVars, chOut,
                   closerPc, mainI, count, sum, printed, histVars>>

\* for i := 0; i < NumOut; i++ { outs[i] = make(chan int64); go Worker(chIn, outs[i]) }
MainGoWorker ==
    /\ Alive
    /\ mainPc = "goWorker"
    /\ wPc' = [wPc EXCEPT ![mainI] = "recv"]
    /\ IF mainI + 1 < NumOut
         THEN mainI' = mainI + 1 /\ mainPc' = mainPc
         ELSE mainI' = 0 /\ mainPc' = "goCollector"
    /\ UNCHANGED <<chanVars, genVars, wV, collectorVars, chOut, closerPc, count, sum,
                   printed, histVars>>

\* for j, v := range outs { wg.Add(1); go func(in, i) {...}(v, int64(j)) }
MainGoCollector ==
    /\ Alive
    /\ mainPc = "goCollector"
    /\ wg' = wg + 1
    /\ cPc' = [cPc EXCEPT ![mainI] = "recv"]
    /\ IF mainI + 1 < NumOut
         THEN mainI' = mainI + 1 /\ mainPc' = mainPc
         ELSE mainI' = 0 /\ mainPc' = "goCloser"
    /\ UNCHANGED <<chanVars, genVars, workerVars, cVal, amounts, chOut, closerPc, count,
                   sum, printed, histVars>>

\* go func() { wg.Wait(); close(chOut) }()
MainGoCloser ==
    /\ Alive
    /\ mainPc = "goCloser"
    /\ closerPc' = "wait"
    /\ mainPc' = "range"
    /\ UNCHANGED <<chanVars, genVars, workerVars, collectorVars, chOut, mainI, count,
                   sum, printed, histVars>>

\* Mutant of MainRange: main aggregates only values larger than the last one received.
MainRange_AssumesOrder ==
    /\ Alive
    /\ mainPc = "range"
    /\ \/ /\ chOut # <<>>
          /\ IF recvd # <<>> /\ Head(chOut) < recvd[Len(recvd)]
               THEN UNCHANGED <<count, sum>>
               ELSE count' = count + 1 /\ sum' = sum + Head(chOut)
          /\ recvd' = Append(recvd, Head(chOut))
          /\ chOut' = Tail(chOut)
          /\ mainPc' = mainPc
       \/ /\ chOut = <<>>
          /\ Closed(ChOut)
          /\ mainPc' = "report"
          /\ UNCHANGED <<count, sum, recvd, chOut>>
    /\ UNCHANGED <<chanVars, genVars, workerVars, collectorVars, closerPc, mainI,
                   printed, sent, hooked, got, fwd, pushed>>

\* Mutant of MainRange: main leaves the loop as soon as chOut is empty, closed or not.
MainRange_LeavesWhenEmpty ==
    /\ Alive
    /\ mainPc = "range"
    /\ \/ /\ chOut # <<>>
          /\ count' = count + 1
          /\ sum' = sum + Head(chOut)
          /\ recvd' = Append(recvd, Head(chOut))
          /\ chOut' = Tail(chOut)
          /\ mainPc' = mainPc
       \/ /\ chOut = <<>>
          /\ mainPc' = "report"
          /\ UNCHANGED <<count, sum, recvd, chOut>>
    /\ UNCHANGED <<chanVars, genVars, workerVars, collectorVars, closerPc, mainI,
                   printed, sent, hooked, got, fwd, pushed>>

\* for v := range chOut { count++; sum += v }
MainRange ==
    /\ Alive
    /\ mainPc = "range"
    /\ \/ /\ chOut # <<>>
          /\ count' = count + 1
          /\ sum' = sum + Head(chOut)
          /\ recvd' = Append(recvd, Head(chOut))
          /\ chOut' = Tail(chOut)
          /\ mainPc' = mainPc
       \/ /\ chOut = <<>>
          /\ Closed(ChOut)
          /\ mainPc' = "report"
          /\ UNCHANGED <<count, sum, recvd, chOut>>
    /\ UNCHANGED <<chanVars, genVars, workerVars, collectorVars, closerPc, mainI,
                   printed, sent, hooked, got, fwd, pushed>>

\* the three fmt.Println calls
MainReport ==
    /\ Alive
    /\ mainPc = "report"
    /\ printed' = <<inputCount, count, inputSum, sum, amounts>>
    /\ mainPc' = "checkSum"
    /\ UNCHANGED <<chanVars, genVars, workerVars, collectorVars, chOut, closerPc, mainI,
                   count, sum, histVars>>

\* Mutant of MainCheckSum: the mismatch is logged without halting (log.Printf).
MainCheckSum_NoHalt ==
    /\ Alive
    /\ mainPc = "checkSum"
    /\ mainPc' = "checkCount"
    /\ UNCHANGED <<chanVars, genVars, workerVars, collectorVars, chOut, closerPc, mainI,
                   count, sum, printed, histVars>>

\* if inputSum != sum { log.Fatalf(...) }
MainCheckSum ==
    /\ Alive
    /\ mainPc = "checkSum"
    /\ mainPc' = IF inputSum # sum THEN "fatalSum" ELSE "checkCount"
    /\ UNCHANGED <<chanVars, genVars, workerVars, collectorVars, chOut, closerPc, mainI,
                   count, sum, printed, histVars>>

\* if inputCount != count { log.Fatalf(...) }
MainCheckCount ==
    /\ Alive
    /\ mainPc = "checkCount"
    /\ mainPc' = IF inputCount # count THEN "fatalCount" ELSE "checkPartition"
    /\ UNCHANGED <<chanVars, genVars, workerVars, collectorVars, chOut, closerPc, mainI,
                   count, sum, printed, histVars>>

\* for _, v := range amounts { inputCount -= v }; if inputCount != 0 { log.Fatalf(...) };
\* on the normal return the deferred cancel() runs.
MainCheckPartition ==
    /\ Alive
    /\ mainPc = "checkPartition"
    /\ inputCount' = inputCount - SumAmounts
    /\ IF inputCount - SumAmounts # 0
         THEN mainPc' = "fatalPartition" /\ UNCHANGED <<cancelled, cancelAt>>
         ELSE mainPc' = "done" /\ CancelCtx
    /\ UNCHANGED <<closedBy, panicked, genPc, g, inputSum, workerVars, collectorVars,
                   chOut, closerPc, mainI, count, sum, printed, histVars>>

----------------------------------------------------------------------------

Next ==
    \/ Timeout
    \/ GenSelect
    \/ \E i \in Idx : SendChIn(i)
    \/ HookSum
    \/ HookCount
    \/ \E i \in Idx : WorkerClosed(i)
    \/ \E i \in Idx : SendOuts(i)
    \/ \E i \in Idx : WorkerSleep(i)
    \/ \E i \in Idx : CollectorIncr(i)
    \/ \E i \in Idx : SendChOut(i)
    \/ \E i \in Idx : CollectorClosed(i)
    \/ CloserWait
    \/ CloserClose
    \/ MainGoGenerator
    \/ MainGoWorker
    \/ MainGoCollector
    \/ MainGoCloser
    \/ MainRange
    \/ MainReport
    \/ MainCheckSum
    \/ MainCheckCount
    \/ MainCheckPartition

Spec == Init /\ [][Next]_vars

\* The report and the three checks of main as a function of the counters they read:
\* the pipeline has ended and the counters hold any values of 0 .. MaxCounter.
MaxCounter == 2

CheckInit ==
    /\ cancelled = TRUE
    /\ cancelAt = 0
    /\ closedBy = [c \in Chans |->
                     IF c = ChIn THEN <<GeneratorTask>>
                     ELSE IF c = ChOut THEN <<CloserTask>>
                     ELSE <<WorkerTask(c[2])>>]
    /\ panicked = FALSE
    /\ genPc = "done"
    /\ g = 0
    /\ inputSum \in 0 .. MaxCounter
    /\ inputCount \in 0 .. MaxCounter
    /\ wPc = [i \in Idx |-> "done"]
    /\ wV = [i \in Idx |-> 0]
    /\ cPc = [i \in Idx |-> "done"]
    /\ cVal = [i \in Idx |-> 0]
    /\ amounts \in [Idx -> 0 .. MaxCounter]
    /\ chOut = <<>>
    /\ wg = 0
    /\ closerPc = "done"
    /\ mainPc = "report"
    /\ mainI = 0
    /\ count \in 0 .. MaxCounter
    /\ sum \in 0 .. MaxCounter
    /\ printed = <<>>
    /\ sent = <<>>
    /\ hooked = <<>>
    /\ got = [i \in Idx |-> <<>>]
    /\ fwd = [i \in Idx |-> <<>>]
    /\ pushed = [i \in Idx |-> <<>>]
    /\ recvd = <<>>

CheckNext ==
    \/ MainReport
    \/ MainCheckSum
    \/ MainCheckCount
    \/ MainCheckPartition

CheckSpec == CheckInit /\ [][CheckNext]_vars

\* The Go scheduler runs every runnable goroutine eventually and the timer of the
\* context fires: no enabled step is postponed forever.
Fairness ==
    /\ WF_vars(Timeout)
    /\ WF_vars(GenSelect)
    /\ WF_vars(\E i \in Idx : SendChIn(i))
    /\ WF_vars(HookSum)
    /\ WF_vars(HookCount)
    /\ \A i \in Idx : WF_vars(WorkerClosed(i))
    /\ \A i \in Idx : WF_vars(SendOuts(i))
    /\ \A i \in Idx : WF_vars(WorkerSleep(i))
    /\ \A i \in Idx : WF_vars(CollectorIncr(i))
    /\ \A i \in Idx : WF_vars(SendChOut(i))
    /\ \A i \in Idx : WF_vars(CollectorClosed(i))
    /\ WF_vars(CloserWait)
    /\ WF_vars(CloserClose)
    /\ WF_vars(MainGoGenerator \/ MainGoWorker \/ MainGoCollector \/ MainGoCloser
               \/ MainRange \/ MainReport \/ MainCheckSum \/ MainCheckCount
               \/ MainCheckPartition)

FairSpec == Spec /\ Fairness

----------------------------------------------------------------------------
\* Vocabulary of the properties

Range(s) == {s[k] : k \in DOMAIN s}
\* number of occurrences of v in the sequence s
Occ(s, v) == Cardinality({k \in DOMAIN s : s[k] = v})
\* s and t hold the same values the same number of times
SameBag(s, t) == \A v \in Range(s) \cup Range(t) : Occ(s, v) = Occ(t, v)
\* the places <<worker, position>> at which v was sent on an outs channel
FwdPlaces(v) == UNION {{<<i, k>> : k \in {n \in DOMAIN fwd[i] : fwd[i][n] = v}} : i \in Idx}

\* main has left "for v := range chOut"
Drained == mainPc \notin {"goGenerator", "goWorker", "goCollector", "goCloser", "range"}
\* main is between the end of the drain and the loop "inputCount -= v"
BeforePartitionCheck == mainPc \in {"report", "checkSum", "checkCount", "checkPartition"}
\* every goroutine of the pipeline has returned and main has left its drain loop
PipelineDone ==
    /\ genPc = "done"
    /\ \A i \in Idx : wPc[i] = "done" /\ cPc[i] = "done"
    /\ closerPc = "done"
    /\ Drained

----------------------------------------------------------------------------
\* C1 as stated: whenever the Aggregator has finished draining chOut (closed and
\* empty), count = inputCount, sum = inputSum and the sum of amounts = inputCount.
C1_Original ==
    (Drained /\ Closed(ChOut) /\ chOut = <<>>) =>
        /\ count = inputCount
        /\ sum = inputSum
        /\ SumAmounts = inputCount

\* C1 amended: from the end of the drain until the partition check has run,
\* count = inputCount, sum = inputSum and the sum of amounts = inputCount; the
\* partition check subtracts every amounts[i] from inputCount, so after it
\* inputCount = 0 while count, the sum of amounts and the printed inputCount agree
\* and sum = inputSum.
C1_Conservation ==
    /\ BeforePartitionCheck =>
          /\ Closed(ChOut) /\ chOut = <<>>
          /\ count = inputCount
          /\ sum = inputSum
          /\ SumAmounts = inputCount
    /\ mainPc \notin {"goGenerator", "goWorker", "goCollector", "goCloser", "range",
                      "report", "checkSum", "checkCount", "checkPartition"} =>
          /\ mainPc = "done"
          /\ inputCount = 0
          /\ count = printed[1]
          /\ SumAmounts = count
          /\ sum = inputSum

C1_Witness ==
    /\ mainPc = "done"
    /\ count >= 2
    /\ \A i \in Idx : amounts[i] > 0

\* C2: in every terminated run the values main received from chOut are, as a
\* multiset, the values the Generator sent on chIn: each of 1..n exactly once and
\* nothing else, n being the number of values sent (and inputCount).
C2_NoDuplicationNoLoss ==
    Drained =>
        /\ SameBag(recvd, sent)
        /\ Len(recvd) = Len(sent)
        /\ \A v \in 1 .. Len(sent) : Occ(recvd, v) = 1
        /\ \A v \in 1 .. inputCount : Occ(recvd, v) = 1
        /\ Range(recvd) \subseteq 1 .. Len(sent)
        /\ BeforePartitionCheck => Len(recvd) = inputCount

C2_Witness ==
    /\ mainPc = "done"
    /\ Len(recvd) >= 2
    /\ recvd # sent

\* C3: in every terminated run each value of 1..n (n the number of values sent,
\* and inputCount) was sent on exactly one outs[i], exactly once and unchanged; a
\* worker forwards only what it received from chIn, and no two workers forward the
\* same value.
C3_PartitionCompleteness ==
    /\ \A i \in Idx : \A k \in DOMAIN fwd[i] : k \in DOMAIN got[i] /\ fwd[i][k] = got[i][k]
    /\ \A i \in Idx : Range(got[i]) \subseteq Range(sent)
    /\ \A i, j \in Idx : i # j => Range(fwd[i]) \cap Range(fwd[j]) = {}
    /\ Drained =>
          /\ \A v \in 1 .. Len(sent) : Cardinality(FwdPlaces(v)) = 1
          /\ \A v \in 1 .. inputCount : Cardinality(FwdPlaces(v)) = 1
          /\ \A i \in Idx : fwd[i] = got[i] /\ Range(fwd[i]) \subseteq 1 .. Len(sent)
          /\ BeforePartitionCheck => inputCount = Len(sent)

C3_Witness ==
    /\ mainPc = "done"
    /\ Cardinality({i \in Idx : fwd[i] # <<>>}) >= 2

\* C4: under fair scheduling, once ctx is cancelled the pipeline reaches the state
\* where the Generator, every Worker, every collector, the closer and main's drain
\* loop have ended, and no state before that is a deadlock.
C4_GracefulShutdown ==
    /\ cancelled ~> PipelineDone
    /\ [](~PipelineDone => ENABLED Next)

C4_Witness ==
    /\ PipelineDone
    /\ Len(sent) = MaxGen
    /\ cancelAt < Len(sent)
    /\ Len(recvd) = MaxGen

\* C5: chOut is closed only when every collector has finished, and once chOut is
\* closed no collector sends on it.
C5_JoinThenClose ==
    /\ []((Closed(ChOut) \/ closerPc = "close") => \A i \in Idx : cPc[i] = "done")
    /\ [][Closed(ChOut) => (pushed' = pushed /\ ~panicked')]_vars

C5_Witness ==
    /\ Closed(ChOut)
    /\ chOut # <<>>
    /\ \A i \in Idx : cPc[i] = "done" /\ pushed[i] # <<>>

\* C6: every channel is closed at most once and only by its owner (chIn by the
\* Generator, outs[i] by Worker i, chOut by the closer), and no goroutine is ever at
\* a send on a closed channel.
C6_SingleClose ==
    /\ ~panicked
    /\ \A c \in Chans : Len(closedBy[c]) <= 1
    /\ Range(closedBy[ChIn]) \subseteq {GeneratorTask}
    /\ Range(closedBy[ChOut]) \subseteq {CloserTask}
    /\ \A i \in Idx : Range(closedBy[Outs(i)]) \subseteq {WorkerTask(i)}
    /\ genPc = "send" => ~Closed(ChIn)
    /\ \A i \in Idx : wPc[i] = "send" => ~Closed(Outs(i))
    /\ \A i \in Idx : cPc[i] = "send" => ~Closed(ChOut)

C6_Witness ==
    /\ \A c \in Chans : Len(closedBy[c]) = 1
    /\ sent # <<>>

\* C7: the k-th value the Generator sends on chIn is k.
C7_Sequence ==
    /\ \A k \in DOMAIN sent : sent[k] = k
    /\ Len(sent) \in {g, g - 1}
    /\ genPc = "send" <=> Len(sent) = g - 1

C7_Witness ==
    /\ Len(sent) = MaxGen
    /\ genPc = "hookSum"

\* main has run the loop "inputCount -= v" of the partition check
PartitionChecked == mainPc \in {"done", "fatalPartition"}

IsPrefix(s, t) == Len(s) <= Len(t) /\ \A k \in DOMAIN s : s[k] = t[k]

\* The calls fn(g): one per value sent, with that value, after its send and before
\* the next send and before close(chIn).
HookOrder ==
    /\ IsPrefix(hooked, sent)
    /\ genPc = "hookSum" => Len(hooked) = Len(sent) - 1
    /\ genPc # "hookSum" => hooked = sent
    /\ Closed(ChIn) => hooked = sent

\* C8 as stated: the hook is called once per value between its send and the next
\* send or the close, hence in every reachable state inputCount is the number of
\* values sent or one less, and the number of values sent once chIn is closed.
C8_Original ==
    /\ HookOrder
    /\ inputCount \in {Len(sent), Len(sent) - 1}
    /\ Closed(ChIn) => inputCount = Len(sent)

\* C8 amended: the same, for every state in which main has not yet run the loop
\* "inputCount -= v" of the partition check; after that loop inputCount is 0.
C8_AccountingHook ==
    /\ HookOrder
    /\ ~PartitionChecked =>
          /\ inputCount \in {Len(sent), Len(sent) - 1}
          /\ inputCount = Len(sent) <=> genPc \notin {"hookSum", "hookCount"}
          /\ Closed(ChIn) => inputCount = Len(sent)
    /\ PartitionChecked => (mainPc = "done" /\ inputCount = 0)

C8_Witness ==
    /\ genPc = "hookCount"
    /\ Len(sent) = 2
    /\ inputCount = 1

\* C9: chIn is closed only after ctx is cancelled; after the cancellation the
\* Generator completes at most one more send (the one whose check came before the
\* cancellation), then closes chIn and returns.
C9_CancellationDriven ==
    /\ [](Closed(ChIn) => cancelled)
    /\ [](genPc = "done" <=> Closed(ChIn))
    /\ [](cancelled => Len(sent) <= cancelAt + 1)
    /\ [][(cancelled /\ genPc = "select") => genPc' \in {"select", "done"}]_vars

C9_Witness ==
    /\ Closed(ChIn)
    /\ cancelAt >= 1
    /\ Len(sent) = cancelAt + 1

\* C10: a Worker ends, and closes its outs[i], only after chIn is closed; collector i
\* ends only after outs[i] is closed; main's drain loop ends only after chOut is
\* closed and empty; before the cancellation none of them has ended.
C10_ClosurePropagation ==
    /\ \A i \in Idx : wPc[i] = "done" => Closed(ChIn)
    /\ \A i \in Idx : Closed(Outs(i)) => (Closed(ChIn) /\ wPc[i] = "done")
    /\ \A i \in Idx : cPc[i] = "done" => Closed(Outs(i))
    /\ Drained => (Closed(ChOut) /\ chOut = <<>>)
    /\ ~cancelled => (~Drained /\ \A i \in Idx : wPc[i] # "done" /\ cPc[i] # "done")

C10_Witness ==
    /\ cancelled
    /\ Closed(ChIn)
    /\ wPc[0] = "done"
    /\ \E i \in Idx : wPc[i] \notin {"done", "idle"} /\ cPc[i] = "incr"

\* C11: if ctx is cancelled before the Generator's first check (cancelled while g is
\* still 0), the Generator never sends, closes chIn, and the run ends with
\* inputCount = count = 0, inputSum = sum = 0 and every amounts[i] = 0.
C11_ExpiredDeadline ==
    /\ [][(cancelled /\ g = 0) => g' = 0]_vars
    /\ []((cancelled /\ g = 0) =>
            /\ genPc \in {"idle", "select", "done"}
            /\ (genPc = "done" <=> Closed(ChIn))
            /\ sent = <<>> /\ recvd = <<>>
            /\ inputCount = 0 /\ count = 0
            /\ inputSum = 0 /\ sum = 0
            /\ \A i \in Idx : amounts[i] = 0)
    /\ (cancelled /\ g = 0) ~> (mainPc = "done" /\ g = 0 /\ Closed(ChIn))

C11_Witness ==
    /\ mainPc = "done"
    /\ cancelAt = 0
    /\ g = 0
    /\ Closed(ChIn)
    /\ printed = <<0, 0, 0, 0, [i \in Idx |-> 0]>>

\* C12: main reads inputCount, inputSum and amounts (report and checks) only when
\* the Generator and every collector have returned; from then on nothing but main's
\* own partition check writes any of these counters, and the values printed are the
\* values the checks read.
C12_ChecksAfterDrain ==
    /\ [](Drained =>
            /\ genPc = "done"
            /\ \A i \in Idx : wPc[i] = "done" /\ cPc[i] = "done"
            /\ closerPc = "done")
    /\ [][Drained =>
            /\ inputSum' = inputSum
            /\ amounts' = amounts
            /\ inputCount' # inputCount => mainPc = "checkPartition"]_vars
    /\ [](printed # <<>> =>
            /\ Drained /\ mainPc # "report"
            /\ printed[2] = count /\ printed[3] = inputSum /\ printed[4] = sum
            /\ printed[5] = amounts
            /\ ~PartitionChecked => printed[1] = inputCount)

C12_Witness ==
    /\ mainPc = "checkSum"
    /\ printed[1] = MaxGen
    /\ \A i \in Idx : printed[5][i] > 0

\* the merged stream main received is in increasing order
MergeOrdered == \A j, k \in DOMAIN recvd : j < k => recvd[j] < recvd[k]

\* C13: the order of the merged stream is not guaranteed (C13_Witness is a run with
\* two workers in which main receives a larger value before a smaller one); what every
\* interleaving that generates n values agrees on is the set of values received,
\* the final count n and the final sum n(n+1)/2.
C13_MergeResult ==
    Drained =>
        LET n == Len(sent) IN
        /\ Len(recvd) = n
        /\ Range(recvd) = 1 .. n
        /\ count = n
        /\ 2 * sum = n * (n + 1)

C13_Witness ==
    /\ NumOut >= 2
    /\ Drained
    /\ ~MergeOrdered
    /\ count = Len(sent)

\* C14: amounts[i] changes only in collector i's step amounts[i]++, once per value
\* received from outs[i]; when collector i has returned, amounts[i] is the number of
\* values Worker i sent on outs[i] and the number collector i sent on chOut.
C14_PerCollectorCounter ==
    /\ [][\A i \in Idx : amounts'[i] # amounts[i] =>
              /\ cPc[i] = "incr" /\ cPc'[i] = "send"
              /\ amounts'[i] = amounts[i] + 1]_vars
    /\ [](\A i \in Idx :
              /\ amounts[i] = Len(fwd[i]) - (IF cPc[i] = "incr" THEN 1 ELSE 0)
              /\ Len(pushed[i]) = amounts[i] - (IF cPc[i] = "send" THEN 1 ELSE 0)
              /\ cPc[i] = "done" =>
                    /\ amounts[i] = Len(fwd[i])
                    /\ amounts[i] = Len(pushed[i])
                    /\ pushed[i] = fwd[i])

C14_Witness ==
    /\ \A i \in Idx : cPc[i] = "done" /\ amounts[i] >= 1
    /\ \E i \in Idx : amounts[i] >= 2

\* C15: with the counter values read at check time, main ends in a fatal exit
\* exactly when inputSum # sum, inputCount # count or the sum of amounts # inputCount,
\* and in the normal exit otherwise; the checks run in the order sum, count,
\* partition and the first failing one halts the process.
C15_CheckOutcome ==
    /\ mainPc \in {"report", "checkSum", "checkCount", "checkPartition"} => ENABLED CheckNext
    /\ printed # <<>> =>
          LET ic == printed[1]
              c == printed[2]
              is == printed[3]
              sm == printed[4]
              parts == SumTo(printed[5], NumOut - 1)
          IN  /\ mainPc \in {"checkSum", "checkCount", "checkPartition", "done",
                             "fatalSum", "fatalCount", "fatalPartition"}
              /\ mainPc = "checkCount" => is = sm
              /\ mainPc = "checkPartition" => (is = sm /\ ic = c)
              /\ mainPc = "fatalSum" => is # sm
              /\ mainPc = "fatalCount" => (is = sm /\ ic # c)
              /\ mainPc = "fatalPartition" => (is = sm /\ ic = c /\ parts # ic)
              /\ mainPc = "done" => (is = sm /\ ic = c /\ parts = ic)
              /\ mainPc \in {"fatalSum", "fatalCount", "fatalPartition"} =>
                    (is # sm \/ ic # c \/ parts # ic)

C15_Witness ==
    /\ mainPc = "fatalCount"
    /\ SumTo(printed[5], NumOut - 1) # printed[1]
    /\ printed[3] = printed[4]

StrictlyIncreasing(s) == \A j, k \in DOMAIN s : j < k => s[j] < s[k]

\* C16: for every worker i the values sent on outs[i] and the values collector i
\* sends on chOut are strictly increasing, and main receives the values of one
\* collector in that order; a worker that carried every value (always so with
\* NumOut = 1) therefore gives main exactly 1, 2, ..., n in that order.
C16_PerWorkerOrder ==
    /\ \A i \in Idx : StrictlyIncreasing(fwd[i]) /\ StrictlyIncreasing(pushed[i])
    /\ \A i \in Idx : \A j, k \in DOMAIN recvd :
          (j < k /\ recvd[j] \in Range(pushed[i]) /\ recvd[k] \in Range(pushed[i]))
              => recvd[j] < recvd[k]
    /\ Drained => \A i \in Idx : fwd[i] = sent => recvd = sent
    /\ (NumOut = 1 /\ Drained) =>
          /\ \A k \in DOMAIN recvd : recvd[k] = k
          /\ Len(recvd) = Len(sent)
          /\ BeforePartitionCheck => Len(recvd) = inputCount

C16_Witness ==
    /\ Drained
    /\ \E i \in Idx : Len(pushed[i]) >= 2
    /\ ~MergeOrdered

\* C17 as stated: in every reachable state
\* count <= sum of amounts <= number of values sent <= inputCount + 1.
C17_Original ==
    /\ count <= SumAmounts
    /\ SumAmounts <= Len(sent)
    /\ Len(sent) <= inputCount + 1

\* C17 amended: count <= sum of amounts <= number of values sent in every reachable
\* state, and number of values sent <= inputCount + 1 (so count exceeds inputCount by
\* at most 1) in every state in which main has not yet run the loop "inputCount -= v"
\* of the partition check; after that loop inputCount is 0.
C17_RunningConservation ==
    /\ count <= SumAmounts
    /\ SumAmounts <= Len(sent)
    /\ ~PartitionChecked =>
          /\ Len(sent) <= inputCount + 1
          /\ inputCount <= Len(sent)
          /\ count <= inputCount + 1
    /\ PartitionChecked =>
          /\ mainPc = "done"
          /\ inputCount = 0
          /\ count = Len(sent)

C17_Witness ==
    /\ ~PartitionChecked
    /\ count = inputCount + 1
    /\ count >= 2

\* Worker i has received a value it has not yet sent on outs[i]
WorkerHolds(i) == wPc[i] = "send"
\* collector i has received a value it has not yet sent on chOut
CollectorHolds(i) == cPc[i] \in {"incr", "send"}

\* C18: chOut buffers at most NumOut values, each Worker and each collector holds at
\* most one value it has received and not yet forwarded, and the values sent by the
\* Generator and not yet received by main are exactly those held or buffered, hence
\* at most 3 * NumOut.
C18_BoundedInFlight ==
    /\ Len(chOut) <= NumOut
    /\ \A i \in Idx : Len(got[i]) - Len(fwd[i]) = (IF WorkerHolds(i) THEN 1 ELSE 0)
    /\ \A i \in Idx : Len(fwd[i]) - Len(pushed[i]) = (IF CollectorHolds(i) THEN 1 ELSE 0)
    /\ Len(sent) - Len(recvd) =
          Cardinality({i \in Idx : WorkerHolds(i)})
          + Cardinality({i \in Idx : CollectorHolds(i)})
          + Len(chOut)
    /\ Len(sent) - Len(recvd) <= 3 * NumOut

C18_Witness ==
    /\ Len(chOut) = NumOut
    /\ \E i \in Idx : cPc[i] = "send"
    /\ Len(sent) - Len(recvd) = NumOut + 1

\* C19 as stated: whenever the Generator is not inside a hook call (between the two
\* additions), in particular at termination, inputSum = inputCount (inputCount + 1) / 2;
\* and at termination sum = count (count + 1) / 2.
C19_Original ==
    /\ genPc # "hookCount" => 2 * inputSum = inputCount * (inputCount + 1)
    /\ Drained => 2 * sum = count * (count + 1)

\* C19 amended: the same for inputSum in every state in which main has not yet run
\* the loop "inputCount -= v" of the partition check; after that loop inputCount = 0
\* and inputSum = count (count + 1) / 2.  Inside a hook call inputSum is one term ahead.
C19_TriangularSums ==
    /\ (genPc # "hookCount" /\ ~PartitionChecked) =>
          2 * inputSum = inputCount * (inputCount + 1)
    /\ genPc = "hookCount" =>
          (~PartitionChecked /\ 2 * inputSum = (inputCount + 1) * (inputCount + 2))
    /\ Drained => 2 * sum = count * (count + 1)
    /\ PartitionChecked =>
          /\ mainPc = "done"
          /\ inputCount = 0
          /\ 2 * inputSum = count * (count + 1)

C19_Witness ==
    /\ mainPc = "done"
    /\ count = MaxGen
    /\ 2 * inputSum = MaxGen * (MaxGen + 1)
    /\ inputSum = sum

====
